---- MODULE Spec2Model ----
(***************************************************************************)
(* KeePassBot, src/src/KeePass.py: the in-memory document tree (KeeGroup,  *)
(* KeeEntry, EntryString), the session facade KeePass (active item, search *)
(* overlay, add/edit draft, persistence) and the XML encode/decode of the  *)
(* tree.                                                                   *)
(*                                                                         *)
(* Python values.  A text is a sequence of one-character strings.  An      *)
(* optional text is None (the empty tuple) or Str(t) (the one-element      *)
(* tuple holding the text t), so the empty string Str(<<>>) differs from   *)
(* None as it does in Python.  An object reference is the index of the     *)
(* object in the heap `nodes`; 0 is Python's None.  An EntryString is      *)
(* owned by the KeeEntry it was constructed for (its _parent, never        *)
(* reassigned) and is referred to as <<owner, index>>, so that two entries *)
(* can hold the same EntryString object in their items lists.              *)
(* Attributes no operation below reads (icon_id, autotype, timestamps) are *)
(* left out.                                                               *)
(***************************************************************************)
EXTENDS Integers, Sequences, FiniteSets, TLC

VARIABLES
    opened,          \* KeePass.opened
    nodes,           \* the heap of KeeGroup / KeeEntry objects
    root_group,      \* KeePass.root_group (0 = None)
    active_item,     \* KeePass.active_item (0 = None)
    search_group,    \* KeePass.search_group (0 = None)
    add_edit_state,  \* KeePass.add_edit_state: <<>> = None, <<draft>> otherwise
    user_file        \* KeePass.user.file as written by update_kdb_in_db: <<>> before the first write

vars == <<opened, nodes, root_group, active_item, search_group, add_edit_state,
          user_file>>

-----------------------------------------------------------------------------
(* Bounds of the model *)

\* objects the heap may hold (garbage included)
MaxNodes == 5
\* largest step between the positions random.sample is taken to pick
MaxStride == 2

(* Program constants *)

NUMBER_OF_ENTRIES_ON_PAGE == 2
passlen == 8

-----------------------------------------------------------------------------
(* Python values *)

None == <<>>
Str(t) == <<t>>
IsNone(v) == Len(v) = 0
Text(v) == v[1]

GROUP == "Group"
ENTRY == "Entry"
ADD == "Add"
EDIT == "Edit"

\* s of generate_password: 63 characters, the digit 0 is written at both ends of the digits
s ==
    <<"a","b","c","d","e","f","g","h","i","j","k","l","m",
      "n","o","p","q","r","s","t","u","v","w","x","y","z",
      "0","1","2","3","4","5","6","7","8","9","0",
      "A","B","C","D","E","F","G","H","I","J","K","L","M",
      "N","O","P","Q","R","S","T","U","V","W","X","Y","Z">>

\* str.lower() of one character and of a text
LowerChar(c) ==
    IF \E i \in 38..63 : s[i] = c
    THEN s[(CHOOSE i \in 38..63 : s[i] = c) - 37]
    ELSE c

lower(t) == [i \in 1..Len(t) |-> LowerChar(t[i])]

\* Python's `a in b` for two texts
In(a, b) ==
    \E k \in 0..(Len(b) - Len(a)) : \A i \in 1..Len(a) : b[k + i] = a[i]

-----------------------------------------------------------------------------
(* BaseKeePass, KeeGroup, KeeEntry, EntryString: the objects of the heap *)

\* uuid4(): the index the new object gets in the heap, which no earlier object
\* has; identifiers read from a document are above 100
NewUuid(h) == Len(h) + 1

\* KeeGroup.__init__ (with BaseKeePass.__init__); parent = 0 is parent=None
KeeGroup(h, parent, name, notes, uuid) ==
    [type   |-> GROUP,
     uuid   |-> IF uuid = 0 THEN NewUuid(h) ELSE uuid,
     parent |-> IF parent = 0 THEN Len(h) + 1 ELSE parent,
     page   |-> 1,
     size   |-> 0,
     name   |-> name,
     notes  |-> notes,
     items  |-> <<>>,
     strs   |-> <<>>]

\* KeeEntry.__init__ (with BaseKeePass.__init__); an entry has no notes attribute
KeeEntry(h, parent, uuid) ==
    [type   |-> ENTRY,
     uuid   |-> IF uuid = 0 THEN NewUuid(h) ELSE uuid,
     parent |-> parent,
     page   |-> 1,
     size   |-> 0,
     name   |-> Str(<<>>),
     notes  |-> None,
     items  |-> <<>>,
     strs   |-> <<>>]

\* the EntryString a reference <<owner, index>> names
StrKey(h, ref) == h[ref[1]].strs[ref[2]].key
StrValue(h, ref) == h[ref[1]].strs[ref[2]].value

\* EntryString.__init__ for parent e: the new object, and the name of its
\* parent set when the key is "Title" (the assignments of __init__ pass
\* through __setattr__, and the last one that writes the name is line 704)
EntryString(h, e, key, value) ==
    [h EXCEPT ![e].strs = Append(@, [key |-> key, value |-> value]),
              ![e].name = IF key = "Title" THEN value ELSE @]

\* the reference of the EntryString that EntryString(h, e, ..) creates
NewStringRef(h, e) == <<e, Len(h[e].strs) + 1>>

\* EntryString.__setattr__ for the attribute value: the parent's name follows
\* when the key is "Title"; the parent is the entry the string was built for
SetValue(h, ref, value) ==
    [h EXCEPT ![ref[1]].strs[ref[2]].value = value,
              ![ref[1]].name = IF StrKey(h, ref) = "Title" THEN value ELSE @]

\* KeeGroup.append
GroupAppend(h, g, item) ==
    [h EXCEPT ![g].items = Append(@, item),
              ![g].size = @ + 1]

\* KeeEntry.append
EntryAppend(h, e, ref) ==
    [h EXCEPT ![e].items = Append(@, ref),
              ![e].size = @ + 1,
              ![e].name = IF StrKey(h, ref) = "Title" THEN StrValue(h, ref) ELSE @]

\* KeeEntry.update_item: every item with the key gets the value (the loop has no break)
RECURSIVE UpdateFrom(_, _, _, _, _)
UpdateFrom(h, e, key, value, i) ==
    IF i > Len(h[e].items) THEN h
    ELSE LET ref == h[e].items[i]
             h1 == IF StrKey(h, ref) = key THEN SetValue(h, ref, value) ELSE h
         IN  UpdateFrom(h1, e, key, value, i + 1)

update_item(h, e, key, value) == UpdateFrom(h, e, key, value, 1)

\* KeeEntry.get_item: the first item with the key, or None
get_item(h, e, key) ==
    LET hits == {i \in 1..Len(h[e].items) : StrKey(h, h[e].items[i]) = key}
    IN  IF hits = {} THEN None
        ELSE h[e].items[CHOOSE i \in hits : \A j \in hits : i <= j]

\* math.ceil(size / NUMBER_OF_ENTRIES_ON_PAGE)
Ceil(size) == (size + NUMBER_OF_ENTRIES_ON_PAGE - 1) \div NUMBER_OF_ENTRIES_ON_PAGE

\* next_page as it would be with <= for <: a full last page is followed by an
\* empty one
next_page_le(h, n) ==
    IF h[n].page * NUMBER_OF_ENTRIES_ON_PAGE <= h[n].size
    THEN [h EXCEPT ![n].page = @ + 1]
    ELSE [h EXCEPT ![n].page = 1]

\* BaseKeePass.next_page: page < size / N compares with the true quotient
next_page(h, n) ==
    IF h[n].page * NUMBER_OF_ENTRIES_ON_PAGE < h[n].size
    THEN [h EXCEPT ![n].page = @ + 1]
    ELSE [h EXCEPT ![n].page = 1]

\* BaseKeePass.previous_page
previous_page(h, n) ==
    IF h[n].page > 1
    THEN [h EXCEPT ![n].page = @ - 1]
    ELSE [h EXCEPT ![n].page = Ceil(h[n].size)]

-----------------------------------------------------------------------------
(* The XML document.  A Group element is [tag, UUID, Name, Notes, children],*)
(* an Entry element is [tag, UUID, strings], a String element [Key, Value]. *)
(* The text of an element is an optional text.                              *)

\* EntryString.get_xml_element
StringXml(h, ref) == [Key |-> StrKey(h, ref), Value |-> StrValue(h, ref)]

\* KeeEntry.get_xml_element: UUID and the String elements, in items order
EntryXml(h, e) ==
    [tag     |-> ENTRY,
     UUID    |-> h[e].uuid,
     strings |-> [i \in 1..Len(h[e].items) |-> StringXml(h, h[e].items[i])]]

\* KeeGroup.get_xml_element: Notes is written as "" whatever self.notes is;
\* the children follow in items order
RECURSIVE GroupXml(_, _)
GroupXml(h, g) ==
    [tag      |-> GROUP,
     UUID     |-> h[g].uuid,
     Name     |-> h[g].name,
     Notes    |-> Str(<<>>),
     children |-> [i \in 1..Len(h[g].items) |->
                     IF h[h[g].items[i]].type = GROUP
                     THEN GroupXml(h, h[g].items[i])
                     ELSE EntryXml(h, h[g].items[i])]]

\* etree.tounicode followed by objectify.fromstring, for the text of one
\* element: an element written with text "" is read back with text None
ParsedText(v) == IF v = Str(<<>>) THEN None ELSE v

\* etree.tounicode followed by objectify.fromstring, for an element tree
RECURSIVE Parsed(_)
Parsed(el) ==
    IF el.tag = GROUP
    THEN [tag      |-> GROUP,
          UUID     |-> el.UUID,
          Name     |-> ParsedText(el.Name),
          Notes    |-> ParsedText(el.Notes),
          children |-> [i \in 1..Len(el.children) |-> Parsed(el.children[i])]]
    ELSE [tag     |-> ENTRY,
          UUID    |-> el.UUID,
          strings |-> [i \in 1..Len(el.strings) |->
                         [Key   |-> el.strings[i].Key,
                          Value |-> ParsedText(el.strings[i].Value)]]]

\* KeePass.generate_root: the Root/Group element of the new _root_obj
generate_root(h, root) == Parsed(GroupXml(h, root))

\* parent_group_obj.findall(tag): the children with the tag, in document order
findall(el, tag) == SelectSeq(el.children, LAMBDA c : c.tag = tag)

\* inner_init, lines 132-133: the String elements of one Entry element
RECURSIVE InitStrings(_, _, _, _)
InitStrings(h, strings, i, e) ==
    IF i > Len(strings) THEN h
    ELSE LET ref == NewStringRef(h, e)
             h1  == EntryString(h, e, strings[i].Key, strings[i].Value)
         IN  InitStrings(EntryAppend(h1, e, ref), strings, i + 1, e)

\* KeePass._init_root_group.inner_init: the Group elements first, then the
\* Entry elements
RECURSIVE inner_init(_, _, _)
RECURSIVE InitItems(_, _, _, _)
InitItems(h, elems, i, cur_group) ==
    IF i > Len(elems) THEN h
    ELSE LET item == elems[i]
             new  == Len(h) + 1
         IN  IF item.tag = GROUP
             THEN LET h1 == Append(h, KeeGroup(h, cur_group, item.Name, item.Notes, item.UUID))
                      h2 == GroupAppend(h1, cur_group, new)
                  IN  InitItems(inner_init(h2, item, new), elems, i + 1, cur_group)
             ELSE LET h1 == Append(h, KeeEntry(h, cur_group, item.UUID))
                      h2 == InitStrings(h1, item.strings, 1, new)
                  IN  InitItems(GroupAppend(h2, cur_group, new), elems, i + 1, cur_group)

inner_init(h, parent_group_obj, cur_group) ==
    InitItems(h, findall(parent_group_obj, GROUP) \o findall(parent_group_obj, ENTRY),
              1, cur_group)

\* KeePass._init_root_group: the heap built from the Root/Group element; the
\* root group is its first object
init_root_group(root_group_obj) ==
    inner_init(<<KeeGroup(<<>>, 0, root_group_obj.Name, root_group_obj.Notes,
                          root_group_obj.UUID)>>,
               root_group_obj, 1)

-----------------------------------------------------------------------------
(* KeePass: search_item, get_item_by_uuid, search *)

\* the objects of the tree under p (p included), through the items of groups
RECURSIVE Tree(_, _)
Tree(h, p) ==
    {p} \cup
    IF h[p].type = GROUP
    THEN UNION {Tree(h, h[p].items[i]) : i \in 1..Len(h[p].items)}
    ELSE {}

\* word.lower() in item.name.lower()
Matches(word, name) == In(lower(word), lower(Text(name)))

\* KeePass.search_item: the exception it ends with, "" when it returns.
\* name.lower() is evaluated for every object of the tree, and a name that
\* is None has no lower()
search_raises(is_opened, h, root) ==
    IF ~is_opened THEN "IOError"
    ELSE IF \E n \in Tree(h, root) : IsNone(h[n].name) THEN "AttributeError"
    ELSE ""

\* KeePass.search_item.__inner_find: the objects appended to finded_items
\* by the call for parent_item, in order
RECURSIVE inner_find(_, _, _)
RECURSIVE FindItems(_, _, _, _)
FindItems(h, word, parent_item, i) ==
    IF i > Len(h[parent_item].items) THEN <<>>
    ELSE LET item == h[parent_item].items[i]
         IN  (IF h[item].type = GROUP THEN inner_find(h, word, item) ELSE <<>>)
             \o (IF Matches(word, h[item].name) THEN <<item>> ELSE <<>>)
             \o FindItems(h, word, parent_item, i + 1)

inner_find(h, word, parent_item) ==
    (IF Matches(word, h[parent_item].name) THEN <<parent_item>> ELSE <<>>)
    \o FindItems(h, word, parent_item, 1)

\* KeePass.search_item, for an opened session whose names are all texts
search_item(h, root, word) == inner_find(h, word, root)

\* KeePass.get_item_by_uuid, lines 273-274: the exception it ends with, ""
\* when it goes on to the lookup
get_item_by_uuid_raises(is_opened) == IF ~is_opened THEN "IOError" ELSE ""

\* KeePass.get_message, lines 210-211: the exception it ends with, "" when it
\* goes on to build the message
get_message_raises(is_opened) == IF ~is_opened THEN "IOError" ELSE ""

\* KeePass.get_item_by_uuid.__inner_find: the first object found, 0 for None
RECURSIVE uuid_find(_, _, _)
RECURSIVE UuidItems(_, _, _, _)
UuidItems(h, word, parent_item, i) ==
    IF i > Len(h[parent_item].items) THEN 0
    ELSE LET item == h[parent_item].items[i]
             finded_elem == IF h[item].type = GROUP THEN uuid_find(h, word, item) ELSE 0
         IN  IF finded_elem # 0 THEN finded_elem
             ELSE IF h[item].uuid = word THEN item
             ELSE UuidItems(h, word, parent_item, i + 1)

uuid_find(h, word, parent_item) ==
    IF h[parent_item].uuid = word THEN parent_item
    ELSE UuidItems(h, word, parent_item, 1)

\* KeePass.get_item_by_uuid of an opened session: scoped to the search group
\* when there is one
get_item_by_uuid(h, root, sg, word) ==
    IF sg # 0 THEN uuid_find(h, word, sg) ELSE uuid_find(h, word, root)

\* the loop of lines 299-300 as it would be if it built a new EntryString
\* with the key and value of each string
RECURSIVE CopyStrings_fresh(_, _, _, _)
CopyStrings_fresh(h, items, i, temp_entry) ==
    IF i > Len(items) THEN h
    ELSE LET ref == NewStringRef(h, temp_entry)
             h1  == EntryString(h, temp_entry, StrKey(h, items[i]), StrValue(h, items[i]))
         IN  CopyStrings_fresh(EntryAppend(h1, temp_entry, ref), items, i + 1, temp_entry)

\* KeePass.search, lines 299-300: temp_entry.append(string) for the items of item
RECURSIVE CopyStrings(_, _, _, _)
CopyStrings(h, items, i, temp_entry) ==
    IF i > Len(items) THEN h
    ELSE CopyStrings(EntryAppend(h, temp_entry, items[i]), items, i + 1, temp_entry)

\* KeePass.search, lines 296-302: one new entry per KeeEntry of finded_items
RECURSIVE SearchBuild(_, _, _, _)
SearchBuild(h, finded_items, i, sg) ==
    IF i > Len(finded_items) THEN h
    ELSE LET item == finded_items[i]
         IN  IF h[item].type = ENTRY
             THEN LET temp_entry == Len(h) + 1
                      h1 == Append(h, KeeEntry(h, sg, 0))
                      h2 == CopyStrings(h1, h[item].items, 1, temp_entry)
                  IN  SearchBuild(GroupAppend(h2, sg, temp_entry), finded_items, i + 1, sg)
             ELSE SearchBuild(h, finded_items, i + 1, sg)

\* search as it would be with parent=None for the search group
search_heap_orphan(h, root, active, word) ==
    LET sg == Len(h) + 1
        h1 == Append(h, KeeGroup(h, 0, Str(<<"S","e","a","r","c","h">>), Str(<<>>), 0))
    IN  SearchBuild(h1, search_item(h, root, word), 1, sg)

\* search as it would be if the search group were appended to the active
\* group it is opened from
search_heap_attached(h, root, active, word) ==
    LET sg == Len(h) + 1
        h1 == Append(h, KeeGroup(h, active, Str(<<"S","e","a","r","c","h">>), Str(<<>>), 0))
        h2 == SearchBuild(h1, search_item(h, root, word), 1, sg)
    IN  IF h[active].type = GROUP THEN GroupAppend(h2, active, sg) ELSE h2

\* KeePass.search, lines 295-302: the heap with the new search group (the
\* object Len(h) + 1, whose parent is the active item) and its entries
search_heap(h, root, active, word) ==
    LET sg == Len(h) + 1
        h1 == Append(h, KeeGroup(h, active, Str(<<"S","e","a","r","c","h">>), Str(<<>>), 0))
    IN  SearchBuild(h1, search_item(h, root, word), 1, sg)

\* the objects KeePass.search creates: the group and one entry per KeeEntry found
SearchCost(h, root, word) ==
    1 + Cardinality({i \in 1..Len(search_item(h, root, word)) :
                        h[search_item(h, root, word)[i]].type = ENTRY})

-----------------------------------------------------------------------------
(* AddEditState: the draft.  fields is the dict as the sequence of its     *)
(* (key, value) pairs in insertion order.                                  *)

EntryFields == <<"Title", "UserName", "Password", "URL", "Notes">>
GroupFields == <<"Name", "Notes">>

Keys(fields) == [i \in 1..Len(fields) |-> fields[i].key]
HasKey(fields, key) == \E i \in 1..Len(fields) : fields[i].key = key
KeyIndex(fields, key) == CHOOSE i \in 1..Len(fields) : fields[i].key = key

\* self.fields[key] = value
SetField(fields, key, value) ==
    IF HasKey(fields, key)
    THEN [fields EXCEPT ![KeyIndex(fields, key)].value = value]
    ELSE Append(fields, [key |-> key, value |-> value])

\* self.fields[key] of a key the dict holds
FieldValue(fields, key) == fields[KeyIndex(fields, key)].value

\* AddEditState.__init__: the exception it ends with, "" when it returns.
\* item_type is ENTRY, GROUP or "None"; obj is an object or 0
StartRaises(h, item_type, obj) ==
    LET type == IF item_type \in {ENTRY, GROUP} THEN item_type ELSE h[obj].type
    IN  IF item_type \notin {ENTRY, GROUP} /\ obj = 0 THEN "KeyError"
        ELSE IF obj = 0 THEN ""
        ELSE IF type = ENTRY
             THEN IF h[obj].type # ENTRY THEN "AttributeError"
                  ELSE IF \E i \in 1..Len(EntryFields) :
                              IsNone(get_item(h, obj, EntryFields[i]))
                       THEN "AttributeError"
                       ELSE ""
             ELSE IF h[obj].type # GROUP THEN "AttributeError" ELSE ""

\* AddEditState.__init__ when it returns
AddEditState(h, item_type, obj) ==
    LET type == IF item_type \in {ENTRY, GROUP} THEN item_type ELSE h[obj].type
    IN  [type          |-> type,
         process_type  |-> IF item_type \in {ENTRY, GROUP} THEN ADD ELSE EDIT,
         fields        |->
            IF type = ENTRY
            THEN [i \in 1..Len(EntryFields) |->
                    [key   |-> EntryFields[i],
                     value |-> IF obj = 0 THEN None
                               ELSE StrValue(h, get_item(h, obj, EntryFields[i]))]]
            ELSE <<[key |-> "Name",  value |-> IF obj = 0 THEN None ELSE h[obj].name],
                   [key |-> "Notes", value |-> IF obj = 0 THEN None ELSE h[obj].notes]>>,
         current_field |-> IF type = ENTRY THEN "Title" ELSE "Name"]

\* AddEditState.set_cur_field_value
set_cur_field_value(d, value) ==
    [d EXCEPT !.fields = SetField(@, d.current_field, value)]

\* AddEditState.set_cur_field
set_cur_field(d, field_name) == [d EXCEPT !.current_field = field_name]

\* AddEditState.next_field: the key after the current one; the loop ends
\* without an assignment when the current key is the last one
next_field(d) ==
    IF HasKey(d.fields, d.current_field)
       /\ KeyIndex(d.fields, d.current_field) < Len(d.fields)
    THEN [d EXCEPT !.current_field = d.fields[KeyIndex(d.fields, d.current_field) + 1].key]
    ELSE d

\* AddEditState.prev_field: the key before the current one; for the first
\* key prev_field is still that key
prev_field(d) ==
    IF HasKey(d.fields, d.current_field)
    THEN LET i == KeyIndex(d.fields, d.current_field)
         IN  [d EXCEPT !.current_field = d.fields[IF i = 1 THEN 1 ELSE i - 1].key]
    ELSE d

\* random.sample(s, passlen): passlen characters of s at distinct positions,
\* in any order.  The model takes the positions start, start + stride, ...
\* (wrapping at the end of s) for every stride up to MaxStride and every
\* start that is the first position of a block of passlen positions, when
\* they are distinct.
Positions(start, stride) ==
    [i \in 1..passlen |-> ((start - 1 + (i - 1) * stride) % Len(s)) + 1]

Samples ==
    {Positions(1 + k * passlen, stride) :
        k \in 0..((Len(s) \div passlen) - 1), stride \in 1..MaxStride}

rsample ==
    {[i \in 1..passlen |-> s[q[i]]] :
        q \in {q \in Samples : \A i, j \in 1..passlen : i # j => q[i] # q[j]}}

\* generate_password as it would be without the last set_cur_field(prev_field)
generate_password_cursor_left(d, gen_password) ==
    set_cur_field_value(set_cur_field(d, "Password"), Str(gen_password))

\* AddEditState.generate_password for the sample gen_password
generate_password(d, gen_password) ==
    LET prev == d.current_field
        d1   == set_cur_field(d, "Password")
        d2   == set_cur_field_value(d1, Str(gen_password))
    IN  set_cur_field(d2, prev)

-----------------------------------------------------------------------------
(* KeePass.finish_add_edit, update_kdb_in_db; BaseKeePass.deactivate;      *)
(* KeeGroup.delete, KeeEntry.delete                                        *)

\* finish_add_edit, lines 315-317: the group the active item is or lies in
RECURSIVE ParentGroup(_, _)
ParentGroup(h, group_item) ==
    IF h[group_item].type = GROUP THEN group_item
    ELSE ParentGroup(h, h[group_item].parent)

\* the loop of lines 324-325 as it would be if it skipped the pairs whose
\* value is None
RECURSIVE AddStrings_skip_none(_, _, _, _)
AddStrings_skip_none(h, fields, i, entry) ==
    IF i > Len(fields) THEN h
    ELSE IF IsNone(fields[i].value)
         THEN AddStrings_skip_none(h, fields, i + 1, entry)
         ELSE LET ref == NewStringRef(h, entry)
                  h1  == EntryString(h, entry, fields[i].key, fields[i].value)
              IN  AddStrings_skip_none(EntryAppend(h1, entry, ref), fields, i + 1, entry)

\* finish_add_edit, lines 324-325: one new EntryString per pair, appended
RECURSIVE AddStrings(_, _, _, _)
AddStrings(h, fields, i, entry) ==
    IF i > Len(fields) THEN h
    ELSE LET ref == NewStringRef(h, entry)
             h1  == EntryString(h, entry, fields[i].key, fields[i].value)
         IN  AddStrings(EntryAppend(h1, entry, ref), fields, i + 1, entry)

\* finish_add_edit, lines 330-331: update_item for every pair
RECURSIVE UpdateStrings(_, _, _, _)
UpdateStrings(h, fields, i, entry) ==
    IF i > Len(fields) THEN h
    ELSE UpdateStrings(update_item(h, entry, fields[i].key, fields[i].value),
                       fields, i + 1, entry)

\* finish_add_edit, lines 334-337: "None" unless a pair has the key "Name"
gr_name(fields) ==
    IF HasKey(fields, "Name") THEN FieldValue(fields, "Name")
    ELSE Str(<<"N", "o", "n", "e">>)

\* finish_add_edit, lines 345-349: name from the key 'Name', notes from the key 'Note'
EditGroup(h, fields, group) ==
    LET h1 == IF HasKey(fields, "Name")
              THEN [h EXCEPT ![group].name = FieldValue(fields, "Name")] ELSE h
    IN  IF HasKey(fields, "Note")
        THEN [h1 EXCEPT ![group].notes = FieldValue(fields, "Note")] ELSE h1

\* finish_add_edit: the exception it ends with, "" when it returns.  Before
\* open get_user() is None; a KeeGroup has no update_item
FinishRaises(is_opened, h, state, active, create_state) ==
    IF state = None THEN ""
    ELSE IF ~is_opened THEN "AttributeError"
    ELSE IF ~create_state THEN ""
    ELSE IF state[1].type = ENTRY /\ state[1].process_type = EDIT
            /\ h[active].type = GROUP /\ Len(state[1].fields) > 0
         THEN "AttributeError"
         ELSE ""

\* finish_add_edit, lines 320-349: the heap after the commit of draft d
Commit(h, d, active) ==
    LET group_item == ParentGroup(h, active)
        new == Len(h) + 1
    IN  IF d.type = ENTRY
        THEN IF d.process_type = ADD
             THEN LET h1 == Append(h, KeeEntry(h, group_item, 0))
                      h2 == AddStrings(h1, d.fields, 1, new)
                  IN  GroupAppend(h2, group_item, new)
             ELSE UpdateStrings(h, d.fields, 1, active)
        ELSE IF d.process_type = ADD
             THEN LET h1 == Append(h, KeeGroup(h, group_item, gr_name(d.fields),
                                              Str(<<>>), 0))
                  IN  GroupAppend(h1, group_item, new)
             ELSE EditGroup(h, d.fields, active)

\* the objects the commit of draft d creates
CommitCost(d) == IF d.process_type = ADD THEN 1 ELSE 0

\* KeePass.update_kdb_in_db: the document written to user.file
update_kdb_in_db(h, root) == <<generate_root(h, root)>>

\* BaseKeePass.deactivate of self: the new search_group and active_item
deactivate_search(active, sg) == IF active = sg THEN 0 ELSE sg
deactivate_active(h, self) == h[self].parent

\* the position of self in the items of its parent, 0 when it is not there
\* (the items of an entry are EntryStrings)
ItemIndex(h, self) ==
    LET p == h[self].parent
        hits == IF h[p].type = GROUP
                THEN {i \in 1..Len(h[p].items) : h[p].items[i] = self}
                ELSE {}
    IN  IF hits = {} THEN 0 ELSE CHOOSE i \in hits : \A j \in hits : i <= j

\* list.remove of the item at position k
RemoveAt(items, k) == [i \in 1..(Len(items) - 1) |-> IF i < k THEN items[i] ELSE items[i + 1]]

\* delete as it would be with items.pop() for items.remove(self)
remove_self_pop(h, self) ==
    [h EXCEPT ![h[self].parent].items = RemoveAt(@, Len(@))]

\* KeeGroup.delete / KeeEntry.delete, line 592 / 691: self._parent.items.remove(self)
remove_self(h, self) ==
    [h EXCEPT ![h[self].parent].items = RemoveAt(@, ItemIndex(h, self))]

-----------------------------------------------------------------------------
(* Inputs *)

\* the document libkeepass hands to open: Root { Group "Ab" { Entry "b" } }
Document ==
    [tag |-> GROUP, UUID |-> 101, Name |-> Str(<<"R">>), Notes |-> None,
     children |->
       <<[tag |-> GROUP, UUID |-> 102, Name |-> Str(<<"A", "b">>), Notes |-> Str(<<"n">>),
          children |->
            <<[tag |-> ENTRY, UUID |-> 103,
               strings |-> <<[Key |-> "Title",    Value |-> Str(<<"b">>)],
                             [Key |-> "UserName", Value |-> None],
                             [Key |-> "Password", Value |-> Str(<<"x">>)],
                             [Key |-> "URL",      Value |-> None],
                             [Key |-> "Notes",    Value |-> None]>>]>>]>>]

\* the values the user types into a draft field
Values == {Str(<<>>), Str(<<"B">>)}

\* the words the user searches for
Words == {<<"b">>, <<"z">>}

\* the identifiers a selection can carry: those of the objects made so far
Uuids == {nodes[n].uuid : n \in 1..Len(nodes)}

-----------------------------------------------------------------------------
(* The session: one action per command.  A command that raises before it  *)
(* has assigned anything leaves the state as it is and is no step; the     *)
(* operators search_raises, StartRaises and FinishRaises give the          *)
(* exception.  The commands come from the keyboard of the last message:    *)
(* the message of a draft (AddEditState._generate_keyboard) offers the     *)
(* draft's commands only, so while the session holds a draft the commands  *)
(* of KeePass._generate_keyboard (selection, back, pages, delete, edit)    *)
(* and a search are not issued.                                            *)

Init ==
    /\ opened = FALSE
    /\ nodes = <<>>
    /\ root_group = 0
    /\ active_item = 0
    /\ search_group = 0
    /\ add_edit_state = None
    /\ user_file = None

\* KeePass.open: _init_root_group, then root_group.activate()
Open ==
    /\ ~opened
    /\ opened' = TRUE
    /\ nodes' = init_root_group(Document)
    /\ root_group' = 1
    /\ active_item' = 1
    /\ UNCHANGED <<search_group, add_edit_state, user_file>>

\* a selection: get_item_by_uuid(word).activate()
Activate(word) ==
    /\ opened
    /\ add_edit_state = None
    /\ get_item_by_uuid(nodes, root_group, search_group, word) # 0
    /\ active_item' = get_item_by_uuid(nodes, root_group, search_group, word)
    /\ UNCHANGED <<opened, nodes, root_group, search_group, add_edit_state, user_file>>

\* active_item.deactivate()
Deactivate ==
    /\ opened
    /\ add_edit_state = None
    /\ search_group' = deactivate_search(active_item, search_group)
    /\ active_item' = deactivate_active(nodes, active_item)
    /\ UNCHANGED <<opened, nodes, root_group, add_edit_state, user_file>>

\* active_item.next_page()
NextPage ==
    /\ opened
    /\ add_edit_state = None
    /\ nodes' = next_page(nodes, active_item)
    /\ UNCHANGED <<opened, root_group, active_item, search_group, add_edit_state, user_file>>

\* active_item.previous_page()
PreviousPage ==
    /\ opened
    /\ add_edit_state = None
    /\ nodes' = previous_page(nodes, active_item)
    /\ UNCHANGED <<opened, root_group, active_item, search_group, add_edit_state, user_file>>

\* KeePass.search(word)
Search(word) ==
    /\ add_edit_state = None
    /\ search_raises(opened, nodes, root_group) = ""
    /\ Len(nodes) + SearchCost(nodes, root_group, word) <= MaxNodes
    /\ nodes' = search_heap(nodes, root_group, active_item, word)
    /\ search_group' = Len(nodes) + 1
    /\ active_item' = Len(nodes) + 1
    /\ UNCHANGED <<opened, root_group, add_edit_state, user_file>>

\* KeePass.start_add_edit(item_type, obj)
StartAddEdit(item_type, obj) ==
    /\ add_edit_state = None
    /\ (obj # 0 => opened)
    /\ StartRaises(nodes, item_type, obj) = ""
    /\ add_edit_state' = <<AddEditState(nodes, item_type, obj)>>
    /\ UNCHANGED <<opened, nodes, root_group, active_item, search_group, user_file>>

\* add_edit_state.set_cur_field(field_name), for a key the keyboard shows
SetCurField(field_name) ==
    /\ add_edit_state # None
    /\ HasKey(add_edit_state[1].fields, field_name)
    /\ add_edit_state' = <<set_cur_field(add_edit_state[1], field_name)>>
    /\ UNCHANGED <<opened, nodes, root_group, active_item, search_group, user_file>>

\* add_edit_state.set_cur_field_value(value)
SetCurFieldValue(value) ==
    /\ add_edit_state # None
    /\ add_edit_state' = <<set_cur_field_value(add_edit_state[1], value)>>
    /\ UNCHANGED <<opened, nodes, root_group, active_item, search_group, user_file>>

\* add_edit_state.next_field()
NextField ==
    /\ add_edit_state # None
    /\ add_edit_state' = <<next_field(add_edit_state[1])>>
    /\ UNCHANGED <<opened, nodes, root_group, active_item, search_group, user_file>>

\* add_edit_state.prev_field()
PrevField ==
    /\ add_edit_state # None
    /\ add_edit_state' = <<prev_field(add_edit_state[1])>>
    /\ UNCHANGED <<opened, nodes, root_group, active_item, search_group, user_file>>

\* add_edit_state.generate_password()
GeneratePassword ==
    /\ add_edit_state # None
    /\ \E gen_password \in rsample :
          add_edit_state' = <<generate_password(add_edit_state[1], gen_password)>>
    /\ UNCHANGED <<opened, nodes, root_group, active_item, search_group, user_file>>

\* finish_add_edit as it would be without `and self.get_user().create_state`
\* in the test of line 311
FinishAddEdit_unchecked(create_state) ==
    /\ FinishRaises(opened, nodes, add_edit_state, active_item, TRUE) = ""
    /\ \/ /\ add_edit_state # None
          /\ Len(nodes) + CommitCost(add_edit_state[1]) <= MaxNodes
          /\ nodes' = Commit(nodes, add_edit_state[1], active_item)
          /\ active_item' = ParentGroup(nodes, active_item)
          /\ user_file' = update_kdb_in_db(nodes', root_group)
          /\ add_edit_state' = None
          /\ UNCHANGED <<opened, root_group, search_group>>
       \/ /\ add_edit_state = None
          /\ add_edit_state' = None
          /\ UNCHANGED <<opened, nodes, root_group, active_item, search_group, user_file>>

\* KeePass.finish_add_edit(); create_state is user.create_state at the call
FinishAddEdit(create_state) ==
    /\ FinishRaises(opened, nodes, add_edit_state, active_item, create_state) = ""
    /\ \/ /\ add_edit_state # None
          /\ create_state
          /\ Len(nodes) + CommitCost(add_edit_state[1]) <= MaxNodes
          /\ nodes' = Commit(nodes, add_edit_state[1], active_item)
          /\ active_item' = ParentGroup(nodes, active_item)
          /\ user_file' = update_kdb_in_db(nodes', root_group)
          /\ add_edit_state' = None
          /\ UNCHANGED <<opened, root_group, search_group>>
       \/ /\ add_edit_state = None \/ ~create_state
          /\ add_edit_state' = None
          /\ UNCHANGED <<opened, nodes, root_group, active_item, search_group, user_file>>

\* delete as it would be with update_kdb_in_db called before items.remove(self)
Delete_persist_first ==
    /\ opened
    /\ add_edit_state = None
    /\ search_group' = deactivate_search(active_item, search_group)
    /\ active_item' = deactivate_active(nodes, active_item)
    /\ \/ /\ ItemIndex(nodes, active_item) = 0
          /\ UNCHANGED <<nodes, user_file>>
       \/ /\ ItemIndex(nodes, active_item) # 0
          /\ nodes' = remove_self(nodes, active_item)
          /\ user_file' = update_kdb_in_db(nodes, root_group)
    /\ UNCHANGED <<opened, root_group, add_edit_state>>

\* active_item.delete(): deactivate, remove from the parent's items (list.remove
\* raises ValueError when self is not there, and delete ends), update_kdb_in_db
Delete ==
    /\ opened
    /\ add_edit_state = None
    /\ search_group' = deactivate_search(active_item, search_group)
    /\ active_item' = deactivate_active(nodes, active_item)
    /\ \/ /\ ItemIndex(nodes, active_item) = 0
          /\ UNCHANGED <<nodes, user_file>>
       \/ /\ ItemIndex(nodes, active_item) # 0
          /\ nodes' = remove_self(nodes, active_item)
          /\ user_file' = update_kdb_in_db(nodes', root_group)
    /\ UNCHANGED <<opened, root_group, add_edit_state>>

-----------------------------------------------------------------------------
(* Specifications.  Each one is the session under one class of commands.  *)

\* Spec: navigation, search, drafts committed as they were started (nothing
\* typed), delete
Next ==
    \/ Open
    \/ \E word \in Uuids : Activate(word)
    \/ Deactivate
    \/ \E word \in Words : Search(word)
    \/ \E item_type \in {ENTRY, GROUP} : StartAddEdit(item_type, 0)
    \/ StartAddEdit("None", active_item)
    \/ \E create_state \in BOOLEAN : FinishAddEdit(create_state)
    \/ Delete

Spec == Init /\ [][Next]_vars

\* the Edit command for an entry: start_add_edit(obj=active_item)
StartEditEntry ==
    /\ opened
    /\ nodes[active_item].type = ENTRY
    /\ StartAddEdit("None", active_item)

\* SpecEdit: entries added and edited with a typed Title, among navigation,
\* search and delete
NextEdit ==
    \/ Open
    \/ \E word \in Uuids : Activate(word)
    \/ Deactivate
    \/ \E word \in Words : Search(word)
    \/ StartAddEdit(ENTRY, 0)
    \/ StartEditEntry
    \/ \E value \in Values : SetCurFieldValue(value)
    \/ \E create_state \in BOOLEAN : FinishAddEdit(create_state)
    \/ Delete

SpecEdit == Init /\ [][NextEdit]_vars

\* SpecPage: the pages of the active item, among navigation, added entries
\* and delete
NextPages ==
    \/ Open
    \/ \E word \in Uuids : Activate(word)
    \/ Deactivate
    \/ NextPage
    \/ PreviousPage
    \/ StartAddEdit(ENTRY, 0)
    \/ \E create_state \in BOOLEAN : FinishAddEdit(create_state)
    \/ Delete

SpecPage == Init /\ [][NextPages]_vars

\* SpecDraft: the draft alone, every field selected and typed, with
\* generate_password; nothing is committed
NextDraft ==
    \/ Open
    \/ \E word \in Uuids : Activate(word)
    \/ \E item_type \in {ENTRY, GROUP} : StartAddEdit(item_type, 0)
    \/ StartAddEdit("None", active_item)
    \/ \E field_name \in {"Title", "UserName", "Password", "URL", "Notes", "Name"} :
          SetCurField(field_name)
    \/ \E value \in Values : SetCurFieldValue(value)
    \/ NextField
    \/ PrevField
    \/ GeneratePassword
    \/ FinishAddEdit(FALSE)

SpecDraft == Init /\ [][NextDraft]_vars

\* the Edit command for a group: start_add_edit(obj=active_item)
StartEditGroup ==
    /\ opened
    /\ nodes[active_item].type = GROUP
    /\ StartAddEdit("None", active_item)

\* SpecGroup: groups added and edited with Name and Notes typed, among
\* navigation and delete
NextGroup ==
    \/ Open
    \/ \E word \in Uuids : Activate(word)
    \/ Deactivate
    \/ StartAddEdit(GROUP, 0)
    \/ StartEditGroup
    \/ \E field_name \in {"Name", "Notes"} : SetCurField(field_name)
    \/ \E value \in Values : SetCurFieldValue(value)
    \/ \E create_state \in BOOLEAN : FinishAddEdit(create_state)
    \/ Delete

SpecGroup == Init /\ [][NextGroup]_vars

\* SpecBrowse: the pages of the active item among navigation, search and
\* delete; nothing is added
NextBrowse ==
    \/ Open
    \/ \E word \in Uuids : Activate(word)
    \/ Deactivate
    \/ NextPage
    \/ PreviousPage
    \/ \E word \in Words : Search(word)
    \/ Delete

SpecBrowse == Init /\ [][NextBrowse]_vars

-----------------------------------------------------------------------------
(* Claims *)

\* the objects of the canonical tree and of the search overlay
Live ==
    IF ~opened THEN {}
    ELSE Tree(nodes, root_group)
         \cup (IF search_group = 0 THEN {} ELSE Tree(nodes, search_group))

\* C1: in every state after open, whatever was appended and deleted, the size
\* of every group and entry of the canonical tree and of the overlay is the
\* number of items it holds.
C1_SizeIsChildCount ==
    \A n \in Live : nodes[n].size = Len(nodes[n].items)

\* C2: in every state, the name of every entry of the canonical tree and of
\* the overlay that holds a Title string is the value of that string.
C2_NameIsTitle ==
    \A n \in Live :
        (nodes[n].type = ENTRY /\ get_item(nodes, n, "Title") # None)
            => nodes[n].name = StrValue(nodes, get_item(nodes, n, "Title"))

\* what a round trip is to keep of the tree under root: for every object its
\* identifier, its kind, its name, the identifier of its parent, and the keys
\* and values of its strings in order (the notes of a group are not compared)
View(h, root) ==
    {[uuid    |-> h[n].uuid,
      type    |-> h[n].type,
      name    |-> h[n].name,
      parent  |-> h[h[n].parent].uuid,
      strings |-> [i \in 1..Len(h[n].items) |->
                     IF h[n].type = ENTRY
                     THEN <<StrKey(h, h[n].items[i]), StrValue(h, h[n].items[i])>>
                     ELSE <<>>]] : n \in Tree(h, root)}

\* C3: in every state after open, decoding the encoding of the tree gives a
\* tree with the same identifiers, names, string keys and values and
\* parent-child relation.
C3_RoundTrip ==
    opened =>
        View(init_root_group(generate_root(nodes, root_group)), 1)
            = View(nodes, root_group)

\* the draft holds a password that generate_password is to have written
IsPassword(v) ==
    /\ ~IsNone(v)
    /\ Len(Text(v)) = passlen
    /\ \A i \in 1..passlen : \E k \in 1..Len(s) : s[k] = Text(v)[i]
    /\ \A i, j \in 1..passlen : i # j => Text(v)[i] # Text(v)[j]

\* C4: every generate_password step leaves in the Password field 8 characters
\* of the alphabet, no two of them the same.
C4_PasswordDistinct ==
    [][GeneratePassword => IsPassword(FieldValue(add_edit_state'[1].fields, "Password"))]_vars

\* C5: a generate_password step on an Entry draft keeps current_field, the
\* keys, and the value of every field other than Password, and changes the
\* value of Password only.
C5_PasswordFrame ==
    [][(GeneratePassword /\ add_edit_state[1].type = ENTRY) =>
          LET d == add_edit_state[1]
              e == add_edit_state'[1]
          IN  /\ e.current_field = d.current_field
              /\ e.type = d.type
              /\ e.process_type = d.process_type
              /\ Keys(e.fields) = Keys(d.fields)
              /\ \A i \in 1..Len(d.fields) :
                    d.fields[i].key # "Password" => e.fields[i] = d.fields[i]
              /\ Len(Text(FieldValue(e.fields, "Password"))) = passlen]_vars

\* C5 witness: an Entry draft with the cursor away from Password, a typed
\* field, and a generated password
C5_Witness ==
    /\ add_edit_state # None
    /\ add_edit_state[1].type = ENTRY
    /\ add_edit_state[1].current_field = "URL"
    /\ FieldValue(add_edit_state[1].fields, "URL") = Str(<<"B">>)
    /\ ~IsNone(FieldValue(add_edit_state[1].fields, "Password"))
    /\ Len(Text(FieldValue(add_edit_state[1].fields, "Password"))) = passlen

\* C6: for an active item of size >= 1, next_page goes from the last page
\* ceil(size/N) to 1 and from an earlier page to the next one; previous_page
\* goes from page 1 to ceil(size/N) and from a later page to the one before.
C6_PagesWrap ==
    [][LET a == nodes[active_item]
           b == nodes'[active_item]
       IN  /\ (NextPage /\ a.size >= 1 /\ a.page = Ceil(a.size)) => b.page = 1
           /\ (NextPage /\ a.size >= 1 /\ a.page < Ceil(a.size)) => b.page = a.page + 1
           /\ (PreviousPage /\ a.size >= 1 /\ a.page = 1) => b.page = Ceil(a.size)
           /\ (PreviousPage /\ a.size >= 1 /\ a.page > 1) => b.page = a.page - 1]_vars

\* C6 witness: an item of several pages stands on its last page, and a group
\* whose size is a multiple of the page length is active
C6_Witness ==
    /\ opened
    /\ \E n \in Tree(nodes, root_group) :
          nodes[n].size >= 3 /\ nodes[n].page = Ceil(nodes[n].size)
    /\ nodes[active_item].type = GROUP
    /\ nodes[active_item].size = NUMBER_OF_ENTRIES_ON_PAGE

\* C7: a finish that commits an Add-Entry draft while the active item is in
\* the canonical tree appends one new entry last to the enclosing group G,
\* raises G.size by one, gives the entry one string per draft field in draft
\* order with the draft's values, names it after the draft's Title, and
\* leaves G active.
C7_AddEntry ==
    [][(/\ add_edit_state # None
        /\ add_edit_state[1].type = ENTRY
        /\ add_edit_state[1].process_type = ADD
        /\ opened
        /\ active_item \in Tree(nodes, root_group)
        /\ FinishAddEdit(TRUE)) =>
          LET d   == add_edit_state[1]
              G   == ParentGroup(nodes, active_item)
              new == Len(nodes) + 1
          IN  /\ Len(nodes') = new
              /\ nodes'[G].items = Append(nodes[G].items, new)
              /\ nodes'[G].size = nodes[G].size + 1
              /\ nodes'[new].type = ENTRY
              /\ Len(nodes'[new].items) = Len(d.fields)
              /\ \A i \in 1..Len(d.fields) :
                    /\ StrKey(nodes', nodes'[new].items[i]) = d.fields[i].key
                    /\ StrValue(nodes', nodes'[new].items[i]) = d.fields[i].value
              /\ nodes'[new].name = FieldValue(d.fields, "Title")
              /\ active_item' = G]_vars

\* C7 witness: the active group of the canonical tree ends with a committed
\* entry of five strings whose Title was typed and whose other values are None
C7_Witness ==
    /\ opened
    /\ add_edit_state = None
    /\ active_item \in Tree(nodes, root_group)
    /\ nodes[active_item].type = GROUP
    /\ Len(nodes[active_item].items) >= 2
    /\ LET e == nodes[active_item].items[Len(nodes[active_item].items)]
       IN  /\ nodes[e].type = ENTRY
           /\ nodes[e].uuid < 100
           /\ Len(nodes[e].items) = Len(EntryFields)
           /\ nodes[e].name = Str(<<"B">>)
           /\ IsNone(StrValue(nodes, nodes[e].items[2]))

\* object n is out of the canonical tree and its identifier resolves to nothing
Gone(h, root, sg, n) ==
    /\ n \notin Tree(h, root)
    /\ get_item_by_uuid(h, root, sg, h[n].uuid) = 0

\* C8: a delete of a non-root object of the canonical tree, with no overlay,
\* takes it out of its parent's items and leaves its identifier and those of
\* its descendants unresolvable; and an object that is out of the tree and
\* unresolvable stays so in every later state.
C8_DeletedStaysGone ==
    [][/\ (/\ opened
           /\ search_group = 0
           /\ active_item \in Tree(nodes, root_group) \ {root_group}
           /\ Delete) =>
             /\ \A i \in 1..Len(nodes'[nodes[active_item].parent].items) :
                   nodes'[nodes[active_item].parent].items[i] # active_item
             /\ \A n \in Tree(nodes, active_item) :
                   Gone(nodes', root_group', search_group', n)
       /\ \A n \in 1..Len(nodes) :
             (opened /\ Gone(nodes, root_group, search_group, n))
                => Gone(nodes', root_group', search_group', n)]_vars

\* C8 witness: the group of the document was deleted with its entry, later
\* commands made new objects, and neither identifier resolves
C8_Witness ==
    /\ opened
    /\ Len(nodes) >= 5
    /\ nodes[3].parent = 2 /\ nodes[2].items = <<3>>
    /\ Gone(nodes, root_group, search_group, 2)
    /\ Gone(nodes, root_group, search_group, 3)
    /\ Len(nodes[root_group].items) >= 1

\* the canonical tree: its objects with their attributes, pages aside
Canon(h, root) == [n \in Tree(h, root) |-> [h[n] EXCEPT !.page = 1]]

\* C9: every step of an opened session that changes the canonical tree writes
\* a document to the user's file, and every step that touches the heap or the
\* file leaves in the file, once one was written, the encoding of the
\* canonical tree as it is after the step.
C9_Persisted ==
    [][(nodes' # nodes \/ user_file' # user_file) =>
          /\ (opened /\ Canon(nodes', root_group') # Canon(nodes, root_group))
                => user_file' # None
          /\ user_file' # None
                => user_file' = <<generate_root(nodes', root_group')>>]_vars

\* C9 witness: the tree lost the group of the document and gained an entry,
\* and a document has been written
C9_Witness ==
    /\ opened
    /\ user_file # None
    /\ 2 \notin Tree(nodes, root_group)
    /\ \E n \in Tree(nodes, root_group) : nodes[n].uuid < 100

\* C10: a search step leaves every object there was as it was (items, size,
\* page, name, notes, strings), the canonical tree made of the same objects,
\* and changes search_group and active_item only.
C10_SearchFrame ==
    [][(\E word \in Words : Search(word)) =>
          /\ \A n \in 1..Len(nodes) : nodes'[n] = nodes[n]
          /\ Tree(nodes', root_group') = Tree(nodes, root_group)
          /\ UNCHANGED <<opened, root_group, add_edit_state, user_file>>]_vars

\* C10 witness: a search has built an overlay holding a copy of an entry whose
\* strings are those of an entry of the canonical tree
C10_Witness ==
    /\ opened
    /\ search_group # 0
    /\ active_item = search_group
    /\ Len(nodes[search_group].items) >= 1
    /\ \E n \in Tree(nodes, root_group) :
          /\ nodes[n].type = ENTRY
          /\ nodes[nodes[search_group].items[1]].items = nodes[n].items

\* C11: a search makes the new search group active and remembers in it the
\* item that was active before; the search group keeps that item as long as
\* it is the search group; and deactivating the active search group clears
\* search_group and makes that item active again.
C11_DeactivateOverlay ==
    [][/\ (search_group' # search_group /\ \E word \in Words : Search(word)) =>
             /\ search_group' # 0
             /\ active_item' = search_group'
             /\ nodes'[search_group'].parent = active_item
       /\ (search_group # 0 /\ search_group' = search_group) =>
             nodes'[search_group].parent = nodes[search_group].parent
       /\ (search_group # 0 /\ active_item = search_group /\ Deactivate) =>
             /\ search_group' = 0
             /\ active_item' = nodes[search_group].parent]_vars

\* C11 witness: a search group with an entry, opened from the entry of the
\* document, was discarded and that entry is active again
C11_Witness ==
    /\ opened
    /\ search_group = 0
    /\ active_item = 3
    /\ \E n \in 1..Len(nodes) :
          /\ nodes[n].type = GROUP
          /\ n \notin Tree(nodes, root_group)
          /\ nodes[n].parent = active_item
          /\ Len(nodes[n].items) >= 1

\* C12: while no document is opened, search, get_item_by_uuid, get_message
\* and finish_add_edit each end with the not-opened error (IOError), so none
\* of them is a step that changes the session.
C12_NotOpened ==
    ~opened =>
        /\ search_raises(opened, nodes, root_group) = "IOError"
        /\ get_item_by_uuid_raises(opened) = "IOError"
        /\ get_message_raises(opened) = "IOError"
        /\ \A create_state \in BOOLEAN :
              FinishRaises(opened, nodes, add_edit_state, active_item, create_state)
                 = "IOError"

\* the object an item of the search group stands for: a matched group is to
\* be the group itself, a matched entry a new entry holding its strings
StandsFor(h0, h1, child, item) ==
    IF h0[item].type = GROUP
    THEN child = item
    ELSE /\ child > Len(h0)
         /\ h1[child].type = ENTRY
         /\ h1[child].uuid # h0[item].uuid
         /\ h1[child].items = h0[item].items

\* C13: after a search step the items of the search group stand one for one,
\* in order, for the objects search_item found: the group itself for a group,
\* a new entry with the same strings for an entry; none when nothing matched.
C13_OverlayChildren ==
    [][(search_group' # search_group /\ \E word \in Words : Search(word)) =>
          \E word \in Words :
             /\ Search(word)
             /\ LET found == search_item(nodes, root_group, word)
                    items == nodes'[search_group'].items
                IN  /\ Len(items) = Len(found)
                    /\ \A i \in 1..Len(found) :
                          StandsFor(nodes, nodes', items[i], found[i])]_vars

\* the entries among the objects search_item found, in order
FoundEntries(h, root, word) ==
    SelectSeq(search_item(h, root, word), LAMBDA item : h[item].type = ENTRY)

\* C14: after a search step, for every entry E found, the entry E' the search
\* group holds for it, every key k of E and every value v, update_item(k, v)
\* on E' leaves v in E.get_item(k).
C14_OverlayAliases ==
    [][(search_group' # search_group /\ \E word \in Words : Search(word)) =>
          \E word \in Words :
             /\ Search(word)
             /\ LET found == FoundEntries(nodes, root_group, word)
                    items == nodes'[search_group'].items
                IN  /\ Len(items) = Len(found)
                    /\ \A i \in 1..Len(found) :
                       \A j \in 1..Len(nodes[found[i]].items) :
                       \A v \in Values \cup {None} :
                          LET k  == StrKey(nodes, nodes[found[i]].items[j])
                              h2 == update_item(nodes', items[i], k, v)
                          IN  StrValue(h2, get_item(h2, found[i], k)) = v]_vars

\* C14 witness: an Edit draft was committed on an entry of the search group
\* and the Title it typed is in the entry of the canonical tree, whose copy
\* is still in the search group under its old name
C14_Witness ==
    /\ opened
    /\ search_group # 0
    /\ add_edit_state = None
    /\ \E e \in Tree(nodes, root_group) :
       \E c \in 1..Len(nodes[search_group].items) :
          /\ nodes[e].type = ENTRY
          /\ nodes[nodes[search_group].items[c]].items = nodes[e].items
          /\ StrValue(nodes, get_item(nodes, e, "Title")) = Str(<<"B">>)
          /\ nodes[nodes[search_group].items[c]].name = Str(<<"b">>)

\* the objects under parent_item (parent_item first) whose name holds word,
\* each once, in depth-first order: a group before what it holds
RECURSIVE DfsMatches(_, _, _)
RECURSIVE DfsItems(_, _, _, _)
DfsItems(h, word, parent_item, i) ==
    IF i > Len(h[parent_item].items) THEN <<>>
    ELSE DfsMatches(h, word, h[parent_item].items[i])
         \o DfsItems(h, word, parent_item, i + 1)

DfsMatches(h, word, item) ==
    (IF Matches(word, h[item].name) THEN <<item>> ELSE <<>>)
    \o (IF h[item].type = GROUP THEN DfsItems(h, word, item, 1) ELSE <<>>)

\* C15: whenever search_item returns, for every word its list is the objects
\* of the canonical tree whose name holds the word, each exactly once, in
\* depth-first order.
C15_SearchItemOnce ==
    search_raises(opened, nodes, root_group) = "" =>
        \A word \in Words :
            search_item(nodes, root_group, word) = DfsMatches(nodes, word, root_group)

\* C16: for every draft the session holds, next_field leaves current_field on
\* the key after the current one in the order of the fields, and on the first
\* key when the current one is the last.
C16_NextFieldWraps ==
    (add_edit_state # None
       /\ HasKey(add_edit_state[1].fields, add_edit_state[1].current_field)) =>
          LET fields == add_edit_state[1].fields
              i      == KeyIndex(fields, add_edit_state[1].current_field)
          IN  next_field(add_edit_state[1]).current_field =
                 fields[IF i = Len(fields) THEN 1 ELSE i + 1].key

\* C17: a finish that commits an Edit draft of a group while a group is
\* active leaves in the active group the draft's Name as name and the
\* draft's Notes as notes.
C17_EditGroup ==
    [][(/\ add_edit_state # None
        /\ add_edit_state[1].type = GROUP
        /\ add_edit_state[1].process_type = EDIT
        /\ opened
        /\ nodes[active_item].type = GROUP
        /\ FinishAddEdit(TRUE)) =>
          /\ nodes'[active_item].name = FieldValue(add_edit_state[1].fields, "Name")
          /\ nodes'[active_item].notes = FieldValue(add_edit_state[1].fields, "Notes")]_vars

\* C18: a finish that commits an Add draft of a group appends to the
\* enclosing group a new group named after the draft's Name, or "None" when
\* Name was never set, with the notes a new group has, not the draft's.
C18_AddGroup ==
    [][(/\ add_edit_state # None
        /\ add_edit_state[1].type = GROUP
        /\ add_edit_state[1].process_type = ADD
        /\ opened
        /\ FinishAddEdit(TRUE)) =>
          LET G   == ParentGroup(nodes, active_item)
              new == Len(nodes) + 1
              v   == FieldValue(add_edit_state[1].fields, "Name")
          IN  /\ Len(nodes') = new
              /\ nodes'[G].items = Append(nodes[G].items, new)
              /\ nodes'[new].type = GROUP
              /\ nodes'[new].notes = Str(<<>>)
              /\ nodes'[new].name = IF IsNone(v) THEN Str(<<"N", "o", "n", "e">>) ELSE v]_vars

C20_PageInRange ==
    \A n \in Live :
        /\ 1 <= nodes[n].page
        /\ nodes[n].page <= (IF Ceil(Len(nodes[n].items)) >= 1
                             THEN Ceil(Len(nodes[n].items)) ELSE 1)

\* the keys a draft of the kind starts with
InitialKeys(type) == IF type = ENTRY THEN EntryFields ELSE GroupFields

\* C21: in every state with a draft, the keys of its fields are those a draft
\* of its kind starts with, and current_field is one of them.
C21_DraftKeys ==
    add_edit_state # None =>
        /\ {add_edit_state[1].fields[i].key : i \in 1..Len(add_edit_state[1].fields)}
              = {InitialKeys(add_edit_state[1].type)[i] :
                    i \in 1..Len(InitialKeys(add_edit_state[1].type))}
        /\ HasKey(add_edit_state[1].fields, add_edit_state[1].current_field)

\* C22: once the document is open one node is active, and while no search
\* group is kept that node is a node of the tree under the root group.
C22_ActiveInTree ==
    opened =>
        /\ active_item \in 1..Len(nodes)
        /\ search_group = 0 => active_item \in Tree(nodes, root_group)

\* C23: a finish that commits an Add draft leaves the node it created
\* reachable from the root group, whatever node was active.
C23_AddedInTree ==
    [][(/\ Len(nodes') = Len(nodes) + 1
        /\ add_edit_state # None
        /\ add_edit_state[1].process_type = ADD
        /\ add_edit_state' = None)
       => Len(nodes') \in Tree(nodes', root_group')]_vars

\* for every group of the tree under root, its identifier with the
\* identifiers of its children in the order of its items
ChildOrder(h, root) ==
    {<<h[g].uuid, [i \in 1..Len(h[g].items) |-> h[h[g].items[i]].uuid]>> :
        g \in {n \in Tree(h, root) : h[n].type = GROUP}}

\* C24: in every state after open, decoding the encoding of the tree gives,
\* for every group, the same children in the same order.
C24_ChildOrderRoundTrip ==
    opened =>
        ChildOrder(init_root_group(generate_root(nodes, root_group)), 1)
            = ChildOrder(nodes, root_group)

====
